---- MODULE Spec2Model ----
(***************************************************************************)
(* The automaton engine of project-automata: the Builder (automaton.ts),   *)
(* the Validator (validator.ts) and the Simulator (simulator.ts).          *)
(*                                                                         *)
(* An Automaton value is a record                                          *)
(*   [type, states, alphabet, transitions, startState, acceptStates,       *)
(*    nextStateId]                                                         *)
(* with JavaScript Sets as TLA+ sets and the transitions array as a        *)
(* sequence of [from, to, symbol] records.  A string is the sequence of    *)
(* its characters.  A call that throws is a result with ok = FALSE and     *)
(* the thrown message in err.  Every result also carries inp, the object   *)
(* that was passed in as the call leaves it: the engine writes only to     *)
(* copies, so inp is the argument itself.                                  *)
(***************************************************************************)
EXTENDS Integers, Sequences, FiniteSets, TLC

\* ------------------------------------------------------------- bounds
\* addState and addTransition are offered while the ids issued and the
\* transitions held number fewer than MaxGrowth together
MaxGrowth == 3
\* the input strings of the simulator have at most MaxInputLen characters
MaxInputLen == 2
\* a transitions array written by hand has at most MaxForged elements
MaxForged == 2
\* two contexts that share a snapshot make at most MaxShared Builder calls
\* that return, together
MaxShared == 3
\* the input strings handed to the example automata have at most MaxWord
\* characters
MaxWord == 6

\* ------------------------------------------------------------- inputs
\* JavaScript null as the symbol of an epsilon transition
null == "<null>"
\* the (kind, alphabet) pairs handed to createAutomaton; the empty alphabet
\* is refused
CreateInputs == {<<"DFA", {"0"}>>, <<"DFA", {"0", "1"}>>, <<"NFA", {"0"}>>,
                 <<"DFA", {}>>, <<"NFA", {}>>}
\* the symbols handed to addTransition / removeTransition: "1" is in no
\* unary alphabet, null is the epsilon marker
SymbolInputs == {"0", "1", null}
\* the characters of the input strings
Chars == {"0", "1"}
\* the state ids handed to the operations: every id addState can issue within
\* the bound (an id not yet issued, or removed, is in no states set)
IdInputs == 0 .. MaxGrowth
\* the destination sets handed to addTransition / removeTransition
ToInputs == {{}} \cup {{i} : i \in IdInputs} \cup {{0, 1}}

\* the value a variable holds when no object is held
Nothing == [nothing |-> TRUE]

Range(s) == {s[i] : i \in 1 .. Len(s)}

\* results of a call
Returned(out, inp) == [ok |-> TRUE, err |-> "", out |-> out, inp |-> inp]
Thrown(msg, inp) == [ok |-> FALSE, err |-> msg, out |-> Nothing, inp |-> inp]

\* ------------------------------------------------------------- Builder
\* (Array.prototype.filter is SelectSeq: the elements that pass, in order)
\* a slip: the size of the alphabet is not tested
emptyAlphabet_never(alphabet) == FALSE

\* alphabet.size === 0
emptyAlphabet(alphabet) == Cardinality(alphabet) = 0

createAutomaton(type, alphabet) ==
    IF emptyAlphabet(alphabet)
    THEN Thrown("Alphabet cannot be empty", alphabet)
    ELSE Returned([type |-> type,
                   states |-> {0},
                   alphabet |-> alphabet,
                   transitions |-> <<>>,
                   startState |-> 0,
                   acceptStates |-> {},
                   nextStateId |-> 1], alphabet)

\* a slip: the id is taken from the number of states
issuedId_sizeAsId(automaton) == Cardinality(automaton.states)

\* const stateId = automaton.nextStateId
issuedId(automaton) == automaton.nextStateId

\* a slip: the counter is copied, not incremented
nextAfterAdd_same(automaton) == automaton.nextStateId

\* nextStateId: automaton.nextStateId + 1
nextAfterAdd(automaton) == automaton.nextStateId + 1

\* a slip: automaton.states.add(stateId) on the Set of the argument
argumentAfterAdd_inPlace(automaton, stateId) ==
    [automaton EXCEPT !.states = automaton.states \cup {stateId}]

\* the argument as addState leaves it: the id goes into a new Set
\* (new Set([...automaton.states, stateId])) of a new object ({...automaton})
argumentAfterAdd(automaton, stateId) == automaton

\* a slip: the Set is copied without the new id
statesAfterAdd_copied(automaton, stateId) == automaton.states

\* states: new Set([...automaton.states, stateId])
statesAfterAdd(automaton, stateId) == automaton.states \cup {stateId}

\* a slip: the counter of the result is returned as the id
returnedId_incremented(automaton, stateId) == automaton.nextStateId + 1

\* return { automaton: {...}, stateId }
returnedId(automaton, stateId) == stateId

addState(automaton) ==
    LET stateId == issuedId(automaton)
    IN  [ok |-> TRUE, err |-> "",
         out |-> [automaton EXCEPT !.states = statesAfterAdd(automaton, stateId),
                                   !.nextStateId = nextAfterAdd(automaton)],
         stateId |-> returnedId(automaton, stateId),
         inp |-> argumentAfterAdd(automaton, stateId)]

\* what remaining[0] is when remaining is empty (no state id is negative)
undefined == -1

\* a slip: the comparator sorts in descending order
firstSorted_descending(S) ==
    IF S = {} THEN undefined
    ELSE CHOOSE x \in S : \A y \in S : x >= y

\* Array.from(newStates).sort((a, b) => a - b)[0]
firstSorted(S) ==
    IF S = {} THEN undefined
    ELSE CHOOSE x \in S : \A y \in S : x <= y

\* a slip: the guard compares the size with 0
isLastState_zero(automaton) == Cardinality(automaton.states) = 0

\* automaton.states.size === 1
isLastState(automaton) == Cardinality(automaton.states) = 1

\* a slip: only the outgoing transitions of the state are dropped
keptByRemoveState_outgoingOnly(t, stateId) == t.from # stateId

\* the filter of removeState: t.from !== stateId && !t.to.has(stateId)
keptByRemoveState(t, stateId) == t.from # stateId /\ stateId \notin t.to

\* a slip: the start state is never reassigned
startAfterRemove_kept(automaton, stateId, newStates) == automaton.startState

\* newStartState of removeState
startAfterRemove(automaton, stateId, newStates) ==
    IF automaton.startState = stateId
    THEN firstSorted(newStates)
    ELSE automaton.startState

\* a slip: the deletes act on the Sets of the argument, not on copies
argumentAfterRemove_inPlace(automaton, stateId) ==
    [automaton EXCEPT !.states = automaton.states \ {stateId},
                      !.acceptStates = automaton.acceptStates \ {stateId}]

\* the argument as removeState leaves it: newStates and newAcceptStates are
\* copies (new Set(...)), filter builds a new array, so nothing of it changes
argumentAfterRemove(automaton, stateId) == automaton

removeState(automaton, stateId) ==
    IF stateId \notin automaton.states
    THEN Thrown("State does not exist", automaton)
    ELSE IF isLastState(automaton)
    THEN Thrown("Cannot remove the last state", automaton)
    ELSE
    LET newStates == automaton.states \ {stateId}
        newAcceptStates == automaton.acceptStates \ {stateId}
        Keep(t) == keptByRemoveState(t, stateId)
        newTransitions == SelectSeq(automaton.transitions, Keep)
        newStartState == startAfterRemove(automaton, stateId, newStates)
    IN  Returned([automaton EXCEPT !.states = newStates,
                                   !.acceptStates = newAcceptStates,
                                   !.transitions = newTransitions,
                                   !.startState = newStartState],
                 argumentAfterRemove(automaton, stateId))

\* a slip: only a DFA transition with several destinations is refused
wrongDestinationCount_manyOnly(automaton, to) ==
    automaton.type = "DFA" /\ Cardinality(to) > 1

\* automaton.type === 'DFA' && to.size !== 1
wrongDestinationCount(automaton, to) ==
    automaton.type = "DFA" /\ Cardinality(to) # 1

\* a slip: a null symbol is taken for "no symbol" and never matches
existingTransition_truthySymbol(automaton, from, symbol) ==
    \E i \in 1 .. Len(automaton.transitions) :
      /\ automaton.transitions[i].from = from
      /\ symbol # null
      /\ automaton.transitions[i].symbol = symbol

\* automaton.transitions.find((t) => t.from === from && t.symbol === symbol)
existingTransition(automaton, from, symbol) ==
    \E i \in 1 .. Len(automaton.transitions) :
      /\ automaton.transitions[i].from = from
      /\ automaton.transitions[i].symbol = symbol

\* a slip: the new transition is put in front
transitionsAfterAdd_inFront(automaton, newTransition) ==
    <<newTransition>> \o automaton.transitions

\* transitions: [...automaton.transitions, newTransition]
transitionsAfterAdd(automaton, newTransition) ==
    Append(automaton.transitions, newTransition)

addTransition(automaton, from, to, symbol) ==
    IF from \notin automaton.states
    THEN Thrown("Source state does not exist", automaton)
    ELSE IF \E destState \in to : destState \notin automaton.states
    THEN Thrown("Destination state does not exist", automaton)
    ELSE IF symbol # null /\ symbol \notin automaton.alphabet
    THEN Thrown("Symbol is not in the alphabet", automaton)
    ELSE IF wrongDestinationCount(automaton, to)
    THEN Thrown("DFA transitions must have exactly one destination state", automaton)
    ELSE IF automaton.type = "DFA" /\ symbol = null
    THEN Thrown("DFA cannot have epsilon transitions", automaton)
    ELSE IF existingTransition(automaton, from, symbol)
    THEN Thrown("Transition already exists", automaton)
    ELSE
    LET newTransition == [from |-> from, to |-> to, symbol |-> symbol]
    IN  Returned([automaton EXCEPT
                    !.transitions = transitionsAfterAdd(automaton, newTransition)],
                 automaton)

\* a slip: the Sets are compared by size alone
setsEqual_sizeOnly(a, b) == Cardinality(a) = Cardinality(b)

\* the helper of removeTransition: a.size === b.size and every item of a in b
setsEqual(a, b) ==
    IF Cardinality(a) # Cardinality(b) THEN FALSE
    ELSE \A item \in a : item \in b

removeTransition(automaton, from, to, symbol) ==
    LET Keep(t) == IF t.from # from \/ t.symbol # symbol THEN TRUE
                   ELSE ~setsEqual(t.to, to)
        newTransitions == SelectSeq(automaton.transitions, Keep)
    IN  Returned([automaton EXCEPT !.transitions = newTransitions], automaton)

setStartState(automaton, stateId) ==
    IF stateId \notin automaton.states
    THEN Thrown("State does not exist", automaton)
    ELSE Returned([automaton EXCEPT !.startState = stateId], automaton)

\* a slip: an accept state may be added again
alreadyAccepting_never(automaton, stateId) == FALSE

\* automaton.acceptStates.has(stateId)
alreadyAccepting(automaton, stateId) == stateId \in automaton.acceptStates

addAcceptState(automaton, stateId) ==
    IF stateId \notin automaton.states
    THEN Thrown("State does not exist", automaton)
    ELSE IF alreadyAccepting(automaton, stateId)
    THEN Thrown("State is already an accept state", automaton)
    ELSE Returned([automaton EXCEPT
                     !.acceptStates = automaton.acceptStates \cup {stateId}],
                  automaton)

removeAcceptState(automaton, stateId) ==
    IF stateId \notin automaton.states
    THEN Thrown("State does not exist", automaton)
    ELSE IF stateId \notin automaton.acceptStates
    THEN Thrown("State is not an accept state", automaton)
    ELSE Returned([automaton EXCEPT
                     !.acceptStates = automaton.acceptStates \ {stateId}],
                  automaton)

getTransitionsFrom(automaton, stateId) ==
    LET Keep(t) == t.from = stateId
    IN  SelectSeq(automaton.transitions, Keep)

\* a slip: the source state is not compared
transitionMatches_symbolOnly(t, stateId, symbol) == t.symbol = symbol

\* (t) => t.from === stateId && t.symbol === symbol
transitionMatches(t, stateId, symbol) == t.from = stateId /\ t.symbol = symbol

getTransition(automaton, stateId, symbol) ==
    LET Keep(t) == transitionMatches(t, stateId, symbol)
    IN  SelectSeq(automaton.transitions, Keep)

\* ------------------------------------------------------------- Validator
\* a slip: the key is the source state alone
transitionKey_fromOnly(transition) == <<transition.from>>

\* `${transition.from},${transition.symbol}`: null is rendered as "null"
transitionKey(transition) ==
    <<transition.from, IF transition.symbol = null THEN "null" ELSE transition.symbol>>

\* the counting pass of isDFA over the rest of the array; transitionCounts is
\* the Map built so far (key -> count)
RECURSIVE countingPass(_, _)
countingPass(transitions, transitionCounts) ==
    IF transitions = <<>> THEN TRUE
    ELSE
    LET key == transitionKey(Head(transitions))
        count == IF key \in DOMAIN transitionCounts THEN transitionCounts[key] ELSE 0
        counts == [k \in DOMAIN transitionCounts \cup {key} |->
                     IF k = key THEN count + 1 ELSE transitionCounts[k]]
    IN  IF count >= 1 THEN FALSE
        ELSE countingPass(Tail(transitions), counts)

\* a slip: only the first transition is tested
hasEpsilonTransitions_firstOnly(automaton) ==
    /\ Len(automaton.transitions) > 0
    /\ automaton.transitions[1].symbol = null

\* automaton.transitions.some((t) => t.symbol === null)
hasEpsilonTransitions(automaton) ==
    \E i \in 1 .. Len(automaton.transitions) :
      automaton.transitions[i].symbol = null

isDFA(automaton) ==
    IF automaton.type # "DFA" THEN FALSE
    ELSE IF hasEpsilonTransitions(automaton)
    THEN FALSE
    ELSE IF \E i \in 1 .. Len(automaton.transitions) :
              Cardinality(automaton.transitions[i].to) # 1
    THEN FALSE
    ELSE countingPass(automaton.transitions, <<>>)

\* a slip: a pair without a transition passes
coversPair_atMostOne(automaton, state, symbol) ==
    LET Keep(t) == t.from = state /\ t.symbol = symbol
    IN  Len(SelectSeq(automaton.transitions, Keep)) <= 1

\* the transitions from state on symbol number exactly one:
\* !(transitions.length !== 1)
coversPair(automaton, state, symbol) ==
    LET Keep(t) == t.from = state /\ t.symbol = symbol
    IN  Len(SelectSeq(automaton.transitions, Keep)) = 1

\* a slip: isComplete does not ask for a valid DFA first
notADfa_never(automaton) == FALSE

\* !isDFA(automaton)
notADfa(automaton) == ~isDFA(automaton)

isComplete(automaton) ==
    IF notADfa(automaton) THEN FALSE
    ELSE \A state \in automaton.states : \A symbol \in automaton.alphabet :
           coversPair(automaton, state, symbol)

\* a slip: a start state that cannot be null is taken for a valid one
hasStartState_always(automaton) == TRUE

hasStartState(automaton) == automaton.startState \in automaton.states

hasAcceptStates(automaton) == Cardinality(automaton.acceptStates) > 0

isRunnable(automaton) ==
    IF automaton.type # "DFA" THEN FALSE
    ELSE hasStartState(automaton) /\ isDFA(automaton) /\ isComplete(automaton)

\* the members of a Set as the array a for-of loop or a spread yields; ids
\* are inserted in increasing order by the Builder, and the results below do
\* not depend on the order
RECURSIVE setToSeq(_)
setToSeq(S) ==
    IF S = {} THEN <<>>
    ELSE LET x == CHOOSE m \in S : \A y \in S : m <= y
         IN  <<x>> \o setToSeq(S \ {x})

\* the traversal of getOrphanedStates keeps reachable (the Set), queue (the
\* worklist), pushed (every id that entered the worklist, in order) and
\* dequeues (the calls of queue.shift)
\* for (const destState of transition.to) if (!reachable.has(destState)) ...
RECURSIVE addDestinations(_, _)
addDestinations(destStates, search) ==
    IF destStates = <<>> THEN search
    ELSE LET destState == Head(destStates)
         IN  addDestinations(Tail(destStates),
               IF destState \in search.reachable THEN search
               ELSE [search EXCEPT
                       !.reachable = search.reachable \cup {destState},
                       !.queue = Append(search.queue, destState),
                       !.pushed = Append(search.pushed, destState)])

\* a slip: the transitions of every state are followed
edgeFrom_any(transition, current) == TRUE

\* transition.from === current
edgeFrom(transition, current) == transition.from = current

\* for (const transition of automaton.transitions) if (from === current) ...
RECURSIVE scanTransitions(_, _, _)
scanTransitions(transitions, current, search) ==
    IF transitions = <<>> THEN search
    ELSE scanTransitions(Tail(transitions), current,
           IF edgeFrom(Head(transitions), current)
           THEN addDestinations(setToSeq(Head(transitions).to), search)
           ELSE search)

\* while (queue.length > 0) { const current = queue.shift() ... }
RECURSIVE traverse(_, _)
traverse(automaton, search) ==
    IF Len(search.queue) = 0 THEN search
    ELSE LET current == Head(search.queue)
             shifted == [search EXCEPT !.queue = Tail(search.queue),
                                       !.dequeues = search.dequeues + 1]
         IN  traverse(automaton,
                      scanTransitions(automaton.transitions, current, shifted))

\* a slip: the start state is queued and not marked
initiallyReached_none(automaton) == {}

\* reachable.add(automaton.startState)
initiallyReached(automaton) == {automaton.startState}

\* the traversal from the start state
traversal(automaton) ==
    traverse(automaton, [reachable |-> initiallyReached(automaton),
                         queue |-> <<automaton.startState>>,
                         pushed |-> <<automaton.startState>>,
                         dequeues |-> 0])

\* a slip: the test is not negated
isOrphaned_reached(reachable, state) == state \in reachable

\* !reachable.has(state)
isOrphaned(reachable, state) == state \notin reachable

getOrphanedStates(automaton) ==
    IF ~hasStartState(automaton) THEN automaton.states
    ELSE LET reachable == traversal(automaton).reachable
         IN  {state \in automaton.states : isOrphaned(reachable, state)}

\* a slip: the report is valid when it holds no warning either
reportValid_noWarnings(errors, warnings) == Len(errors) = 0 /\ Len(warnings) = 0

\* valid: errors.length === 0
reportValid(errors, warnings) == Len(errors) = 0

\* a slip: no test of completeness
incomplete_never(automaton) == FALSE

\* isDFA(automaton) && !isComplete(automaton)
incomplete(automaton) == isDFA(automaton) /\ ~isComplete(automaton)

\* the warning `Unreachable states: ${[...orphaned].join(', ')}` is the
\* text before the list with the ids listed
getValidationReport(automaton) ==
    LET e1 == IF ~hasStartState(automaton)
              THEN <<"No start state defined">> ELSE <<>>
        e2 == IF ~isDFA(automaton)
              THEN <<"Not a valid DFA">> ELSE <<>>
        e3 == IF incomplete(automaton)
              THEN <<"DFA is incomplete">> ELSE <<>>
        w1 == IF ~hasAcceptStates(automaton)
              THEN <<[text |-> "No accept states defined", ids |-> <<>>]>> ELSE <<>>
        orphaned == getOrphanedStates(automaton)
        w2 == IF Cardinality(orphaned) > 0
              THEN <<[text |-> "Unreachable states", ids |-> setToSeq(orphaned)]>>
              ELSE <<>>
        errors == e1 \o e2 \o e3
        warnings == w1 \o w2
    IN  [valid |-> reportValid(errors, warnings),
         errors |-> errors,
         warnings |-> warnings]

\* ------------------------------------------------------------- Simulator
\* Array.from(S)[0]: the member of a Set of one, undefined for an empty Set
\* (of a Set of several it is the one inserted first, which a set does not
\* record: the properties rely on it for Sets of at most one member only)
first(S) == IF S = {} THEN undefined ELSE CHOOSE x \in S : TRUE

\* a slip: the last character is never processed
isFinished_oneLeft(simulation) == Len(simulation.remainingInput) <= 1

isFinished(simulation) == Len(simulation.remainingInput) = 0

\* a slip: the type guard is left out
notSupported_never(automaton) == FALSE

\* the DFA type guard: automaton.type === 'NFA'
notSupported(automaton) == automaton.type = "NFA"

createSimulation(automaton, input) ==
    IF notSupported(automaton)
    THEN Thrown("NFA simulation not yet supported", automaton)
    ELSE IF ~isRunnable(automaton)
    THEN Thrown("Automaton is not runnable", automaton)
    ELSE
    LET initialStep == [currentState |-> automaton.startState,
                        symbolProcessed |-> null,
                        remainingInput |-> input]
    IN  Returned([automaton |-> automaton,
                  currentStates |-> {automaton.startState},
                  remainingInput |-> input,
                  steps |-> <<initialStep>>,
                  input |-> input], automaton)

\* a slip: the source of the transition is taken for its destination
nextStateOf_from(transition) == transition.from

\* const nextState = Array.from(transition.to)[0]
nextStateOf(transition) == first(transition.to)

\* a slip: the remaining input of the argument is shortened before the checks
simulationAtThrow_consumed(simulation, newRemainingInput) ==
    [simulation EXCEPT !.remainingInput = newRemainingInput]

\* the argument as step leaves it when it throws: symbol, newRemainingInput
\* and currentState are consts computed from it (slice and Array.from copy),
\* so nothing of it changes
simulationAtThrow(simulation, newRemainingInput) == simulation

\* a slip: the history is not carried over
stepsAfter_newOnly(simulation, newStep) == <<newStep>>

\* steps: [...simulation.steps, newStep]
stepsAfter(simulation, newStep) == Append(simulation.steps, newStep)

\* a slip: the alphabet is not consulted
symbolMissing_never(automaton, symbol) == FALSE

\* !automaton.alphabet.has(symbol)
symbolMissing(automaton, symbol) == symbol \notin automaton.alphabet

\* a slip: the record is written like the initial one
symbolRecorded_null(symbol) == null

\* symbolProcessed: symbol
symbolRecorded(symbol) == symbol

\* a slip: the new state is added to the current ones
currentStatesAfter_accumulated(simulation, nextState) ==
    simulation.currentStates \cup {nextState}

\* currentStates: new Set([nextState])
currentStatesAfter(simulation, nextState) == {nextState}

\* a slip: the last character is read, remainingInput[length - 1]
symbolRead_last(remainingInput) == remainingInput[Len(remainingInput)]

\* const symbol = remainingInput[0]
symbolRead(remainingInput) == Head(remainingInput)

step(simulation) ==
    IF isFinished(simulation)
    THEN Thrown("Simulation is already finished", simulation)
    ELSE
    LET automaton == simulation.automaton
        symbol == symbolRead(simulation.remainingInput)
        newRemainingInput == Tail(simulation.remainingInput)
        currentState == first(simulation.currentStates)
        transitions == getTransition(automaton, currentState, symbol)
    IN  IF symbolMissing(automaton, symbol)
        THEN Thrown("Symbol is not in the alphabet",
                    simulationAtThrow(simulation, newRemainingInput))
        ELSE IF Len(transitions) = 0
        THEN Thrown("No transition",
                    simulationAtThrow(simulation, newRemainingInput))
        ELSE
        LET transition == transitions[1]
            nextState == nextStateOf(transition)
            newStep == [currentState |-> nextState,
                        symbolProcessed |-> symbolRecorded(symbol),
                        remainingInput |-> newRemainingInput]
        IN  Returned([simulation EXCEPT
                        !.currentStates = currentStatesAfter(simulation, nextState),
                        !.remainingInput = newRemainingInput,
                        !.steps = stepsAfter(simulation, newStep)],
                     simulation)

\* a slip: no test of isFinished
isAccepted_anyTime(simulation) ==
    \E state \in simulation.currentStates :
      state \in simulation.automaton.acceptStates

isAccepted(simulation) ==
    IF ~isFinished(simulation) THEN FALSE
    ELSE \E state \in simulation.currentStates :
           state \in simulation.automaton.acceptStates

\* a result r of runSimulation, with the number of calls of step it made
Counted(r, calls) ==
    [ok |-> r.ok, err |-> r.err, out |-> r.out, inp |-> r.inp, calls |-> calls]

\* while (!isFinished(simulation)) simulation = step(simulation)
\* calls: the calls of step made before this test of the loop condition
RECURSIVE stepLoop(_, _)
stepLoop(simulation, calls) ==
    IF isFinished(simulation)
    THEN Counted(Returned(simulation, simulation), calls)
    ELSE LET r == step(simulation)
         IN  IF r.ok THEN stepLoop(r.out, calls + 1) ELSE Counted(r, calls + 1)

runSimulation(automaton, input) ==
    LET created == createSimulation(automaton, input)
    IN  IF ~created.ok THEN Counted(created, 0)
        ELSE [stepLoop(created.out, 0) EXCEPT !.inp = automaton]

accepts(automaton, input) ==
    LET ran == runSimulation(automaton, input)
    IN  IF ~ran.ok THEN ran ELSE Returned(isAccepted(ran.out), automaton)

getFinalState(automaton, input) ==
    LET ran == runSimulation(automaton, input)
    IN  IF ~ran.ok THEN ran ELSE Returned(first(ran.out.currentStates), automaton)

\* (a line of the trace is the template literal with the values it
\* interpolates: what comes after q, between the quotes and after Result)
\* `Start: q${currentState} | Remaining: "${remainingInput}"`
startLine(stepData) ==
    [text |-> "Start", state |-> stepData.currentState,
     remaining |-> stepData.remainingInput]

\* `Read '${symbolProcessed}': q${prevState} -> q${currentState} | Remaining: "${remainingInput}"`
readLine(stepData, prevState) ==
    [text |-> "Read", symbol |-> stepData.symbolProcessed,
     prev |-> prevState, state |-> stepData.currentState,
     remaining |-> stepData.remainingInput]

\* a slip: the result is pushed whether or not the simulation is finished
resultLines_always(simulation) ==
    <<[text |-> "Result",
       verdict |-> IF isAccepted(simulation) THEN "ACCEPTED" ELSE "REJECTED"]>>

\* if (isFinished(simulation)) trace.push(`Result: ${...}`)
resultLines(simulation) ==
    IF isFinished(simulation)
    THEN <<[text |-> "Result",
            verdict |-> IF isAccepted(simulation) THEN "ACCEPTED" ELSE "REJECTED"]>>
    ELSE <<>>

\* simulation.steps[i - 1]!.currentState at i = 0 reads a property of
\* undefined: a TypeError
getExecutionTrace(simulation) ==
    IF Len(simulation.steps) > 0 /\ simulation.steps[1].symbolProcessed # null
    THEN Thrown("TypeError", simulation)
    ELSE
    LET lines == [i \in 1 .. Len(simulation.steps) |->
                    LET stepData == simulation.steps[i]
                    IN  IF stepData.symbolProcessed = null
                        THEN startLine(stepData)
                        ELSE readLine(stepData, simulation.steps[i - 1].currentState)]
    IN  Returned(lines \o resultLines(simulation), simulation)

\* ------------------------------------------------------------- the caller
\* a: the automaton the caller holds (the value the last successful Builder
\*    call returned);
\* sim: the simulation it holds, or Nothing;
\* issued: the ids addState has returned along the chain of a, in order;
\* argsIntact: whether every call so far that returned, and every call so far
\*    that threw, left the value passed to it as it was, whether some call
\*    has thrown, and whether the Validator has been called.
VARIABLES a, sim, issued, argsIntact, ctx
vars == <<a, sim, issued, argsIntact, ctx>>

\* all strings of at most n characters
RECURSIVE Strings(_)
Strings(n) ==
    IF n = 0 THEN {<<>>}
    ELSE LET shorter == Strings(n - 1)
         IN  shorter \cup {Append(w, c) : w \in {v \in shorter : Len(v) = n - 1}, c \in Chars}

Inputs == Strings(MaxInputLen)

\* argsIntact after a call with result r on the argument arg
Observed(r, arg) ==
    [returned |-> argsIntact.returned /\ (r.ok => r.inp = arg),
     thrown |-> argsIntact.thrown /\ (~r.ok => r.inp = arg),
     threw |-> argsIntact.threw \/ ~r.ok,
     validated |-> argsIntact.validated]

Init ==
    /\ \E in \in CreateInputs :
         LET r == createAutomaton(in[1], in[2])
         IN  r.ok /\ a = r.out
    /\ sim = Nothing
    /\ issued = <<>>
    /\ argsIntact = [returned |-> TRUE, thrown |-> TRUE, threw |-> FALSE,
                     validated |-> FALSE]
    /\ ctx = Nothing

\* a Builder call on a: the caller keeps what a successful call returns and
\* drops the simulation of the automaton it had; it keeps a when the call
\* throws
Built(r) ==
    /\ a' = IF r.ok THEN r.out ELSE a
    /\ argsIntact' = Observed(r, a)
    /\ sim' = Nothing
    /\ UNCHANGED ctx

CreateAutomaton ==
    \E in \in CreateInputs :
      LET r == createAutomaton(in[1], in[2])
      IN  /\ a' = IF r.ok THEN r.out ELSE a
          /\ issued' = IF r.ok THEN <<>> ELSE issued
          /\ argsIntact' = Observed(r, in[2])
          /\ sim' = Nothing
          /\ UNCHANGED ctx

\* the ids issued and the transitions held
Grown(automaton) == automaton.nextStateId - 1 + Len(automaton.transitions)

AddState ==
    /\ Grown(a) < MaxGrowth
    /\ LET r == addState(a)
       IN  /\ Built(r)
           /\ issued' = Append(issued, r.stateId)

RemoveState ==
    \E stateId \in IdInputs :
      /\ Built(removeState(a, stateId))
      /\ UNCHANGED issued

AddTransition ==
    /\ Grown(a) < MaxGrowth
    /\ \E from \in IdInputs, to \in ToInputs, symbol \in SymbolInputs :
         Built(addTransition(a, from, to, symbol))
    /\ UNCHANGED issued

\* the caller names a transition it sees, with that or another destination
\* set, or a (from, symbol) pair that may have none
RemoveInputs(automaton) ==
    {<<t.from, to, t.symbol>> : t \in Range(automaton.transitions), to \in ToInputs}
      \cup {<<0, {0}, "0">>, <<0, {}, null>>}

RemoveTransition ==
    \E in \in RemoveInputs(a) :
      /\ Built(removeTransition(a, in[1], in[2], in[3]))
      /\ UNCHANGED issued

SetStartState ==
    \E stateId \in IdInputs :
      /\ Built(setStartState(a, stateId))
      /\ UNCHANGED issued

AddAcceptState ==
    \E stateId \in IdInputs :
      /\ Built(addAcceptState(a, stateId))
      /\ UNCHANGED issued

RemoveAcceptState ==
    \E stateId \in IdInputs :
      /\ Built(removeAcceptState(a, stateId))
      /\ UNCHANGED issued

\* a Simulator call that returns a simulation: the caller keeps it
Simulated(r, arg) ==
    /\ sim' = IF r.ok THEN r.out ELSE sim
    /\ argsIntact' = Observed(r, arg)
    /\ UNCHANGED <<a, issued, ctx>>

CreateSimulation ==
    \E input \in Inputs :
      Simulated(createSimulation(a, input), a)

Step ==
    /\ sim # Nothing
    /\ Simulated(step(sim), sim)

RunSimulation ==
    \E input \in Inputs :
      Simulated(runSimulation(a, input), a)

Next ==
    \/ CreateAutomaton
    \/ AddState
    \/ RemoveState
    \/ AddTransition
    \/ RemoveTransition
    \/ SetStartState
    \/ AddAcceptState
    \/ RemoveAcceptState
    \/ CreateSimulation
    \/ Step
    \/ RunSimulation

Spec == Init /\ [][Next]_vars

\* ------------------------------------------------- a caller that bypasses
\* ------------------------------------------------- the Builder
\* The tests of the Validator and of step build values by hand: an automaton
\* with one field replaced ({...dfa, startState: 999}) and a Simulation
\* object literal.  Nothing validates such a value.
\* the state ids written by hand: with states = {0}, 1 is a missing state
ForgedIds == {0, 1}
\* the transitions written by hand: from each state to the other one on each
\* character, and from state 0 one with no destination, one with two
\* destinations and one on the epsilon marker
ForgedTransitions ==
    {[from |-> from, to |-> ForgedIds \ {from}, symbol |-> symbol] :
       from \in ForgedIds, symbol \in Chars}
      \cup {[from |-> 0, to |-> {}, symbol |-> "0"],
            [from |-> 0, to |-> ForgedIds, symbol |-> "0"],
            [from |-> 0, to |-> {1}, symbol |-> null]}

\* the Simulation literal of the step tests: no createSimulation, no steps
invalidSim(automaton, state, input) ==
    [automaton |-> automaton,
     currentStates |-> {state},
     remainingInput |-> input,
     steps |-> <<>>,
     input |-> input]

\* the caller holds the hand-made automaton and no simulation of the old one
Replaced(automaton) ==
    /\ a' = automaton
    /\ sim' = Nothing
    /\ UNCHANGED <<issued, argsIntact, ctx>>

\* {...a, states: new Set([...])}
ReplaceStates ==
    \E states \in SUBSET ForgedIds :
      Replaced([a EXCEPT !.states = states])

\* {...a, startState: id}
ReplaceStartState ==
    \E stateId \in ForgedIds :
      Replaced([a EXCEPT !.startState = stateId])

\* {...a, transitions: [...a.transitions, t]}
ReplaceTransitions ==
    /\ Len(a.transitions) < MaxForged
    /\ \E t \in ForgedTransitions :
         Replaced([a EXCEPT !.transitions = Append(a.transitions, t)])

\* step on a Simulation literal around the automaton held
StepForged ==
    \E state \in ForgedIds, input \in Inputs :
      Simulated(step(invalidSim(a, state, input)), invalidSim(a, state, input))

\* a slip: the orphaned states are what is left of the Set of the argument
argumentAfterValidation_deleted(automaton) ==
    [automaton EXCEPT !.states = getOrphanedStates(automaton)]

\* the argument as the Validator leaves it: the functions read its fields;
\* the Map, the Sets and the arrays they write to are their own
argumentAfterValidation(automaton) == automaton

\* every function of the Validator, called on the automaton
validate(automaton) ==
    Returned([isDFA |-> isDFA(automaton),
              isComplete |-> isComplete(automaton),
              hasStartState |-> hasStartState(automaton),
              hasAcceptStates |-> hasAcceptStates(automaton),
              isRunnable |-> isRunnable(automaton),
              orphaned |-> getOrphanedStates(automaton),
              report |-> getValidationReport(automaton)],
             argumentAfterValidation(automaton))

\* the caller inspects the automaton it holds
Validate ==
    /\ argsIntact' = [Observed(validate(a), a) EXCEPT !.validated = TRUE]
    /\ UNCHANGED <<a, sim, issued, ctx>>

NextBypass ==
    \/ ReplaceStates
    \/ ReplaceStartState
    \/ ReplaceTransitions
    \/ CreateSimulation
    \/ Step
    \/ RunSimulation
    \/ StepForged

SpecBypass == Init /\ [][NextBypass]_vars

\* {...a, acceptStates: new Set([...])}
ReplaceAcceptStates ==
    \E states \in SUBSET ForgedIds :
      Replaced([a EXCEPT !.acceptStates = states])

\* {...a, transitions: [...a.transitions, t]} with t a self-loop
ReplaceTransitionsLoop ==
    /\ Len(a.transitions) < MaxForged
    /\ \E from \in ForgedIds, symbol \in Chars :
         Replaced([a EXCEPT !.transitions =
                     Append(a.transitions,
                            [from |-> from, to |-> {from}, symbol |-> symbol])])

\* a caller that inspects hand-made automaton values with the Validator
NextValidator ==
    \/ Validate
    \/ ReplaceTransitionsLoop
    \/ ReplaceStates
    \/ ReplaceStartState
    \/ ReplaceTransitions
    \/ ReplaceAcceptStates

SpecValidator == Init /\ [][NextValidator]_vars

\* ------------------------------------------------ the example automata
\* the DFA that accepts the strings ending in "01"
createEndsWith01DFA ==
    LET dfa == createAutomaton("DFA", {"0", "1"}).out
        added1 == addState(dfa)
        dfa1 == added1.out
        q1 == added1.stateId
        added2 == addState(dfa1)
        dfa2 == added2.out
        q2 == added2.stateId
        accepting == addAcceptState(dfa2, q2).out
        t1 == addTransition(accepting, 0, {q1}, "0").out
        t2 == addTransition(t1, 0, {0}, "1").out
        t3 == addTransition(t2, q1, {q1}, "0").out
        t4 == addTransition(t3, q1, {q2}, "1").out
        t5 == addTransition(t4, q2, {q1}, "0").out
    IN  addTransition(t5, q2, {0}, "1").out

\* the DFA that accepts the binary numbers divisible by 3
createDivisibleBy3DFA ==
    LET dfa == createAutomaton("DFA", {"0", "1"}).out
        added1 == addState(dfa)
        dfa1 == added1.out
        r1 == added1.stateId
        added2 == addState(dfa1)
        dfa2 == added2.out
        r2 == added2.stateId
        accepting == addAcceptState(dfa2, 0).out
        t1 == addTransition(accepting, 0, {0}, "0").out
        t2 == addTransition(t1, 0, {r1}, "1").out
        t3 == addTransition(t2, r1, {r2}, "0").out
        t4 == addTransition(t3, r1, {0}, "1").out
        t5 == addTransition(t4, r2, {r1}, "0").out
    IN  addTransition(t5, r2, {r2}, "1").out

Words == Strings(MaxWord)

\* the caller holds one of the example automata
InitExamples ==
    /\ a \in {createEndsWith01DFA, createDivisibleBy3DFA}
    /\ sim = Nothing
    /\ issued = <<>>
    /\ argsIntact = [returned |-> TRUE, thrown |-> TRUE, threw |-> FALSE,
                     validated |-> FALSE]
    /\ ctx = Nothing

CreateSimulationWord ==
    \E input \in Words :
      Simulated(createSimulation(a, input), a)

RunSimulationWord ==
    \E input \in Words :
      Simulated(runSimulation(a, input), a)

NextExamples ==
    \/ CreateSimulationWord
    \/ Step
    \/ RunSimulationWord

SpecExamples == InitExamples /\ [][NextExamples]_vars

\* ------------------------------------------ two contexts, one snapshot
\* (each context holds one automaton handle and calls the engine on it; both
\* handles start as the snapshot a. What a Builder function returns,
\* {...automaton, f: ...}, is a new object whose other fields are the objects
\* of its argument, so the values the contexts derive from the snapshot share
\* every Set and array that no call has built anew since)
Contexts == {1, 2}
otherContext(c) == 3 - c
ObjectFields == {"states", "alphabet", "transitions", "acceptStates"}
\* the object of the snapshot itself
Self == "self"

\* the automaton values the contexts start from: a new automaton, and one
\* with a second state and a transition to it
Snapshots ==
    LET created == createAutomaton("DFA", {"0", "1"}).out
        second == addState(createAutomaton("NFA", {"0"}).out).out
    IN  {created, addTransition(second, 0, {1}, "0").out}

\* the state ids and the destination sets the contexts hand to the Builder
SharedIds == 0 .. MaxShared
SharedTo == {{0}, {0, 1}}

InitShared ==
    /\ a \in Snapshots
    /\ sim = Nothing
    /\ issued = <<>>
    /\ argsIntact = [returned |-> TRUE, thrown |-> TRUE, threw |-> FALSE,
                     validated |-> FALSE]
    /\ ctx = [value |-> <<a, a>>,
              kept |-> <<ObjectFields \cup {Self}, ObjectFields \cup {Self}>>,
              undisturbed |-> TRUE,
              calls |-> 0]

\* the transitions array seq of a context after a call wrote through the
\* Transition objects of the array before (now is that array after the
\* call): the Transition objects of the snapshot are in every array derived
\* from it, since filter and spread copy references
writtenThrough(seq, before, now) ==
    [i \in 1 .. Len(seq) |->
       LET at == {j \in 1 .. Len(before) :
                    j <= Len(now) /\ before[j] = seq[i] /\ before[j] # now[j]}
       IN  IF seq[i] \in Range(a.transitions) /\ at # {}
           THEN now[CHOOSE j \in at : TRUE]
           ELSE seq[i]]

\* the value the context d holds after a call of the context c has left its
\* argument arg as after: every write to an object that d holds too shows
\* in the value of d
seenBy(d, c, arg, after) ==
    LET both == ctx.kept[c] \cap ctx.kept[d]
        held == ctx.value[d]
    IN  [f \in DOMAIN held |->
           IF Self \in both \/ f \in both
           THEN after[f]
           ELSE IF f = "transitions"
                THEN writtenThrough(held[f], arg[f], after[f])
                ELSE held[f]]

\* the context c has called a function on its handle: it holds own
\* afterwards, the object it passed is left as after, anew are the fields
\* of own that the function built, and intact tells whether the simulation
\* it passed, which the other context may hold too, is as it was
LeftBy(c, own, after, anew, returned, intact) ==
    LET d == otherContext(c)
        seen == seenBy(d, c, ctx.value[c], after)
    IN  /\ ctx' = [value |-> [ctx.value EXCEPT ![c] = own, ![d] = seen],
                   kept |-> [ctx.kept EXCEPT ![c] = @ \ anew],
                   undisturbed |-> /\ ctx.undisturbed
                                   /\ seen = ctx.value[d]
                                   /\ intact,
                   calls |-> ctx.calls + returned]
        /\ UNCHANGED <<a, sim, issued, argsIntact>>

\* a Builder call with result r: the context keeps what it returns, or the
\* object it passed when the call throws
BuiltBy(c, r, anew) ==
    /\ r.ok => ctx.calls < MaxShared
    /\ IF r.ok THEN LeftBy(c, r.out, r.inp, anew \cup {Self}, 1, TRUE)
               ELSE LeftBy(c, r.inp, r.inp, {}, 0, TRUE)

AddStateBy ==
    \E c \in Contexts :
      BuiltBy(c, addState(ctx.value[c]), {"states"})

RemoveStateBy ==
    \E c \in Contexts, stateId \in SharedIds :
      BuiltBy(c, removeState(ctx.value[c], stateId),
              {"states", "acceptStates", "transitions"})

AddTransitionBy ==
    \E c \in Contexts, from \in SharedIds, to \in SharedTo, symbol \in SymbolInputs :
      BuiltBy(c, addTransition(ctx.value[c], from, to, symbol), {"transitions"})

RemoveTransitionBy ==
    \E c \in Contexts :
      \E in \in RemoveInputs(ctx.value[c]) :
        BuiltBy(c, removeTransition(ctx.value[c], in[1], in[2], in[3]),
                {"transitions"})

SetStartStateBy ==
    \E c \in Contexts, stateId \in SharedIds :
      BuiltBy(c, setStartState(ctx.value[c], stateId), {})

AddAcceptStateBy ==
    \E c \in Contexts, stateId \in SharedIds :
      BuiltBy(c, addAcceptState(ctx.value[c], stateId), {"acceptStates"})

RemoveAcceptStateBy ==
    \E c \in Contexts, stateId \in SharedIds :
      BuiltBy(c, removeAcceptState(ctx.value[c], stateId), {"acceptStates"})

\* a Simulator call on the handle: the context keeps its handle
CreateSimulationBy ==
    \E c \in Contexts, input \in Inputs :
      LET r == createSimulation(ctx.value[c], input)
      IN  LeftBy(c, r.inp, r.inp, {}, 0, TRUE)

\* step on the simulation just created: its automaton field is the handle
StepBy ==
    \E c \in Contexts, input \in Inputs :
      LET created == createSimulation(ctx.value[c], input)
      IN  /\ created.ok
          /\ LET r == step(created.out)
             IN  LeftBy(c, r.inp.automaton, r.inp.automaton, {}, 0,
                        r.inp = created.out)

RunSimulationBy ==
    \E c \in Contexts, input \in Inputs :
      LET r == runSimulation(ctx.value[c], input)
      IN  LeftBy(c, r.inp, r.inp, {}, 0, TRUE)

NextShared ==
    \/ AddStateBy
    \/ RemoveStateBy
    \/ AddTransitionBy
    \/ RemoveTransitionBy
    \/ SetStartStateBy
    \/ AddAcceptStateBy
    \/ RemoveAcceptStateBy
    \/ CreateSimulationBy
    \/ StepBy
    \/ RunSimulationBy

SpecShared == InitShared /\ [][NextShared]_vars

\* ------------------------------------------------------------- properties
\* the strings of Inputs whose characters are all in the alphabet
AlphabetStrings(automaton) ==
    {w \in Inputs : \A i \in 1 .. Len(w) : w[i] \in automaton.alphabet}

\* the destination of the one transition from q on c
delta(automaton, q, c) ==
    CHOOSE d \in automaton.states :
      \E t \in Range(automaton.transitions) :
        t.from = q /\ t.symbol = c /\ t.to = {d}

\* the state reached from q by following w
RECURSIVE reached(_, _, _)
reached(automaton, q, w) ==
    IF w = <<>> THEN q
    ELSE reached(automaton, delta(automaton, q, Head(w)), Tail(w))

\* some id that addState issued is no longer a state: removeState has acted
SomeIssuedRemoved == \E i \in 1 .. Len(issued) : issued[i] \notin a.states

\* C1: for a runnable automaton built through the Builder and every input
\* over its alphabet, accepts is true iff the state reached from startState
\* along the input is an accept state, getFinalState returns that state, and
\* the empty input is accepted iff startState is an accept state; a finished
\* simulation the caller holds is in that state.
C1_AcceptsIffReachedAccepting ==
    /\ isRunnable(a) =>
         \A w \in AlphabetStrings(a) :
           LET q == reached(a, a.startState, w)
           IN  /\ accepts(a, w).ok
               /\ accepts(a, w).out = (q \in a.acceptStates)
               /\ accepts(a, w).out = isAccepted(runSimulation(a, w).out)
               /\ getFinalState(a, w).ok
               /\ getFinalState(a, w).out = q
               /\ w = <<>> => (accepts(a, w).out = (a.startState \in a.acceptStates))
    /\ (sim # Nothing /\ isFinished(sim)) =>
         LET q == reached(sim.automaton, sim.automaton.startState, sim.input)
         IN  /\ sim.currentStates = {q}
             /\ isAccepted(sim) = (q \in sim.automaton.acceptStates)

\* a finished run over two characters that left a non-accepting start state
\* and is accepted in another state
C1_Witness ==
    /\ sim # Nothing
    /\ isFinished(sim)
    /\ Len(sim.input) = 2
    /\ Cardinality(sim.automaton.states) >= 2
    /\ sim.automaton.startState \notin sim.automaton.acceptStates
    /\ isAccepted(sim)
    /\ accepts(sim.automaton, sim.input).out

C3_NextStateIdAboveAndMonotone ==
    /\ [](/\ \A s \in a.states : s < a.nextStateId
          /\ \A i \in 1 .. Len(issued) : issued[i] < a.nextStateId)
    /\ [][AddState => a'.nextStateId = a.nextStateId + 1]_vars
    /\ [][(\/ RemoveState \/ AddTransition \/ RemoveTransition \/ SetStartState
           \/ AddAcceptState \/ RemoveAcceptState)
            => a'.nextStateId = a.nextStateId]_vars

\* the highest id issued has been removed and the counter stays above it
C3_Witness ==
    /\ Len(issued) >= 2
    /\ issued[Len(issued)] \notin a.states
    /\ a.nextStateId = issued[Len(issued)] + 1

\* C4: startState is a member of states, so hasStartState holds, also after
\* the start state was removed.
C4_StartStateInStates ==
    /\ a.startState \in a.states
    /\ hasStartState(a)

\* the first start state, 0, was removed from an automaton that keeps two
\* states
C4_Witness ==
    /\ 0 \notin a.states
    /\ Cardinality(a.states) >= 2
    /\ a.startState \in a.states

\* C5: every state id a transition or acceptStates refers to is a member of
\* states.
C5_ReferencesInStates ==
    /\ \A t \in Range(a.transitions) : t.from \in a.states /\ t.to \subseteq a.states
    /\ a.acceptStates \subseteq a.states

\* a state was removed and removing another one would drop a transition into
\* it and its accept mark
C5_Witness ==
    /\ SomeIssuedRemoved
    /\ \E id \in a.acceptStates :
         /\ \E t \in Range(a.transitions) : t.from # id /\ id \in t.to
         /\ removeState(a, id).ok
         /\ Len(removeState(a, id).out.transitions) < Len(a.transitions)

\* C6: for both kinds there is at most one transition per (from, symbol), and
\* addTransition fails whenever one with that from and symbol exists, whatever
\* the destination set.
C6_OneTransitionPerFromSymbol ==
    /\ \A i, j \in 1 .. Len(a.transitions) :
         (/\ a.transitions[i].from = a.transitions[j].from
          /\ a.transitions[i].symbol = a.transitions[j].symbol) => i = j
    /\ \A from \in IdInputs, to \in ToInputs, symbol \in SymbolInputs :
         (\E t \in Range(a.transitions) : t.from = from /\ t.symbol = symbol)
           => ~addTransition(a, from, to, symbol).ok

\* an NFA with an epsilon transition, for which a second epsilon transition
\* from the same state to another destination set is refused
C6_Witness ==
    /\ a.type = "NFA"
    /\ \E t \in Range(a.transitions), to \in ToInputs :
         /\ t.symbol = null
         /\ to # t.to
         /\ addTransition(a, t.from, to, null).err = "Transition already exists"

\* C7: in an automaton created as a DFA every transition has one destination
\* and a symbol other than the epsilon marker, no two share (from, symbol),
\* and isDFA holds.
C7_DfaKindIsDFA ==
    a.type = "DFA" =>
      /\ \A t \in Range(a.transitions) : Cardinality(t.to) = 1 /\ t.symbol # null
      /\ \A i, j \in 1 .. Len(a.transitions) :
           (/\ a.transitions[i].from = a.transitions[j].from
            /\ a.transitions[i].symbol = a.transitions[j].symbol) => i = j
      /\ isDFA(a)

\* a DFA that holds two transitions from the same state
C7_Witness ==
    /\ a.type = "DFA"
    /\ Len(a.transitions) = 2
    /\ a.transitions[1].from = a.transitions[2].from

\* C8: the destination set of every transition is non-empty, for NFA as for
\* DFA.
C8_DestinationsNonEmpty ==
    \A t \in Range(a.transitions) : t.to # {}

\* C9: states is never empty; removeState fails with 'State does not exist'
\* for an id not in states, and with 'Cannot remove the last state' for the
\* id of the only state.
C9_StatesNonEmpty ==
    /\ a.states # {}
    /\ \A id \in IdInputs :
         /\ id \notin a.states =>
              (~removeState(a, id).ok /\ removeState(a, id).err = "State does not exist")
         /\ (id \in a.states /\ Cardinality(a.states) = 1) =>
              (~removeState(a, id).ok
               /\ removeState(a, id).err = "Cannot remove the last state")

\* states were removed until one is left, and removing it is refused
C9_Witness ==
    /\ SomeIssuedRemoved
    /\ Cardinality(a.states) = 1
    /\ \E id \in a.states :
         removeState(a, id).err = "Cannot remove the last state"

\* C10: a successful Builder operation or step leaves the value passed in
\* unchanged in every field.
C10_InputUnchanged ==
    argsIntact.returned

\* removeState, the Builder calls that made the automaton runnable and two
\* steps of a simulation have returned
C10_Witness ==
    /\ SomeIssuedRemoved
    /\ sim # Nothing
    /\ Len(sim.steps) >= 3
    /\ argsIntact.returned

\* C11: a Builder or Simulator operation that fails returns no value and
\* leaves the automaton, alphabet or simulation passed in unchanged in every
\* field: for every call made so far, and for every call that can be made on
\* the automaton and the simulation held.
C11_FailureLeavesArgument ==
    /\ argsIntact.thrown
    /\ \A in \in CreateInputs :
         LET r == createAutomaton(in[1], in[2])
         IN  ~r.ok => (r.out = Nothing /\ r.inp = in[2])
    /\ \A stateId \in IdInputs :
         \A r \in {removeState(a, stateId), setStartState(a, stateId),
                   addAcceptState(a, stateId), removeAcceptState(a, stateId)} :
           ~r.ok => (r.out = Nothing /\ r.inp = a)
    /\ \A from \in IdInputs, to \in ToInputs, symbol \in SymbolInputs :
         LET r == addTransition(a, from, to, symbol)
         IN  ~r.ok => (r.out = Nothing /\ r.inp = a)
    /\ \A input \in Inputs :
         \A r \in {createSimulation(a, input), runSimulation(a, input)} :
           ~r.ok => (r.out = Nothing /\ r.inp = a)
    /\ sim # Nothing =>
         LET r == step(sim)
         IN  ~r.ok => (r.out = Nothing /\ r.inp = sim)

\* some call has thrown, and the simulation held, one step into its input,
\* is at a character outside the alphabet, on which step throws
C11_Witness ==
    /\ argsIntact.threw
    /\ sim # Nothing
    /\ Len(sim.steps) = 2
    /\ step(sim).err = "Symbol is not in the alphabet"

\* C12: createSimulation succeeds iff the automaton is of type DFA and
\* isRunnable; an NFA is refused with 'NFA simulation not yet supported', a
\* DFA that is not runnable with 'Automaton is not runnable'; the simulation
\* returned has currentStates = {startState}, remainingInput = input =
\* the input, and the one step record {startState, null, input}.
C12_CreateSimulationGate ==
    /\ \A input \in Inputs :
         LET r == createSimulation(a, input)
         IN  /\ r.ok <=> (a.type = "DFA" /\ isRunnable(a))
             /\ a.type = "NFA" =>
                  (~r.ok /\ r.err = "NFA simulation not yet supported")
             /\ (a.type = "DFA" /\ ~isRunnable(a)) =>
                  (~r.ok /\ r.err = "Automaton is not runnable")
             /\ r.ok =>
                  /\ r.out.automaton = a
                  /\ r.out.currentStates = {a.startState}
                  /\ r.out.remainingInput = input
                  /\ r.out.input = input
                  /\ r.out.steps = <<[currentState |-> a.startState,
                                      symbolProcessed |-> null,
                                      remainingInput |-> input]>>
    /\ (sim # Nothing /\ sim.steps # <<>> /\ Len(sim.steps) = 1
          /\ sim.steps[1].symbolProcessed = null) =>
         /\ sim.automaton.type = "DFA"
         /\ isRunnable(sim.automaton)
         /\ sim.currentStates = {sim.automaton.startState}
         /\ sim.remainingInput = sim.input

\* the simulation createSimulation returned for a hand-made DFA with two
\* states and an input of two characters is held, and a call has thrown
C12_Witness ==
    /\ argsIntact.threw
    /\ a.type = "DFA"
    /\ a.states = {0, 1}
    /\ a.nextStateId = 1
    /\ sim # Nothing
    /\ Len(sim.input) = 2
    /\ sim = createSimulation(a, sim.input).out

\* the positions of the transitions of the automaton from q on c
matching(automaton, q, c) ==
    {i \in 1 .. Len(automaton.transitions) :
       automaton.transitions[i].from = q /\ automaton.transitions[i].symbol = c}

\* what C13 says of step on a simulation in state q with remaining input w
StepAsClaimed(simulation, q, w) ==
    LET r == step(simulation)
        c == Head(w)
        found == matching(simulation.automaton, q, c)
    IN  /\ c \notin simulation.automaton.alphabet =>
             (~r.ok /\ r.err = "Symbol is not in the alphabet")
        /\ (c \in simulation.automaton.alphabet /\ found = {}) =>
             (~r.ok /\ r.err = "No transition")
        /\ (c \in simulation.automaton.alphabet /\ found # {}) =>
             /\ r.ok
             /\ r.out.remainingInput = Tail(w)
             /\ r.out.automaton = simulation.automaton
             /\ r.out.input = simulation.input
             /\ Len(r.out.steps) = Len(simulation.steps) + 1
             /\ SubSeq(r.out.steps, 1, Len(simulation.steps)) = simulation.steps
             /\ LET t == simulation.automaton.transitions[
                            CHOOSE i \in found : \A j \in found : i <= j]
                IN  \A d \in t.to :
                      t.to = {d} =>
                        /\ r.out.currentStates = {d}
                        /\ r.out.steps[Len(r.out.steps)] =
                             [currentState |-> d,
                              symbolProcessed |-> c,
                              remainingInput |-> Tail(w)]

\* the position of the first character of w outside the alphabet, 0 if none
firstOutside(automaton, w) ==
    IF \A i \in 1 .. Len(w) : w[i] \in automaton.alphabet THEN 0
    ELSE CHOOSE i \in 1 .. Len(w) :
           /\ w[i] \notin automaton.alphabet
           /\ \A j \in 1 .. i - 1 : w[j] \in automaton.alphabet

C14_ReadyToFinished ==
    /\ [](sim # Nothing =>
            /\ isFinished(sim) <=> (sim.remainingInput = <<>>)
            /\ Len(sim.steps) + Len(sim.remainingInput) = Len(sim.input) + 1
            /\ sim.remainingInput =
                 SubSeq(sim.input, Len(sim.steps), Len(sim.input))
            /\ isFinished(sim) =>
                 (~step(sim).ok /\ step(sim).err = "Simulation is already finished")
            /\ (~isFinished(sim) /\ step(sim).ok) =>
                 step(sim).out.remainingInput = Tail(sim.remainingInput))
    /\ [][Step =>
            \/ sim' = sim
            \/ /\ ~isFinished(sim)
               /\ sim'.remainingInput = Tail(sim.remainingInput)
               /\ sim'.input = sim.input]_vars
    /\ [][(Step /\ isFinished(sim)) => (sim' = sim /\ isFinished(sim'))]_vars

\* a simulation has gone from Ready to Finished in two steps, and step on it
\* throws
C14_Witness ==
    /\ sim # Nothing
    /\ Len(sim.input) = 2
    /\ Len(sim.steps) = 3
    /\ isFinished(sim)
    /\ argsIntact.threw
    /\ step(sim).err = "Simulation is already finished"

\* C15: for an automaton built through the Builder that is runnable, step
\* never fails with 'No transition': every simulation of it is in a state of
\* the automaton, step succeeds on it whenever its next character is in the
\* alphabet, and runSimulation succeeds for every input over the alphabet.
C15_NoMissingTransition ==
    /\ isRunnable(a) =>
         \A w \in Inputs :
           /\ runSimulation(a, w).err # "No transition"
           /\ w \in AlphabetStrings(a) => runSimulation(a, w).ok
    /\ sim # Nothing =>
         /\ sim.currentStates \subseteq sim.automaton.states
         /\ step(sim).err # "No transition"
         /\ (/\ ~isFinished(sim)
             /\ Head(sim.remainingInput) \in sim.automaton.alphabet) => step(sim).ok

\* a state was removed from the automaton, and a simulation of it has made
\* two steps through states of the automaton and is Finished
C15_Witness ==
    /\ SomeIssuedRemoved
    /\ sim # Nothing
    /\ sim.automaton = a
    /\ isFinished(sim)
    /\ Len(sim.steps) = 3
    /\ \A i \in 1 .. 3 : sim.steps[i].currentState \in a.states

\* C16: runSimulation calls step at most |input| times, for every automaton
\* and input; for a runnable automaton built through the Builder and an
\* input over its alphabet it returns, after exactly |input| calls, a
\* Finished simulation whose steps number |input| + 1.
C16_RunSimulationBounded ==
    /\ \A w \in Inputs :
         LET ran == runSimulation(a, w)
         IN  /\ ran.calls <= Len(w)
             /\ (isRunnable(a) /\ w \in AlphabetStrings(a)) =>
                  /\ ran.ok
                  /\ ran.calls = Len(w)
                  /\ isFinished(ran.out)
                  /\ Len(ran.out.steps) = Len(w) + 1
                  /\ ran.out.input = w
    /\ (sim # Nothing /\ isFinished(sim)) =>
         Len(sim.steps) = Len(sim.input) + 1

\* the Finished simulation that runSimulation returns for an input of two
\* characters is held, for an automaton of two states, both visited
C16_Witness ==
    /\ sim # Nothing
    /\ sim.automaton = a
    /\ Cardinality(a.states) = 2
    /\ Len(sim.input) = 2
    /\ Len(sim.steps) = 3
    /\ sim.steps[1].currentState # sim.steps[2].currentState
    /\ runSimulation(a, sim.input).calls = 2
    /\ sim = runSimulation(a, sim.input).out

\* what C17 says of isAccepted on a simulation
AcceptedAsClaimed(simulation) ==
    /\ ~isFinished(simulation) => ~isAccepted(simulation)
    /\ isFinished(simulation) =>
         (isAccepted(simulation) <=>
            simulation.currentStates \cap simulation.automaton.acceptStates # {})

\* C17: isAccepted is false for a simulation that is not Finished, also when
\* its current state is an accept state; for a Finished one it is true iff
\* some current state is an accept state.  For the simulation held, for the
\* one createSimulation returns for each input, and for hand-made ones with
\* any set of current states.
C17_AcceptedOnlyWhenFinished ==
    /\ sim # Nothing => AcceptedAsClaimed(sim)
    /\ \A w \in Inputs :
         /\ createSimulation(a, w).ok => AcceptedAsClaimed(createSimulation(a, w).out)
         /\ \A states \in ToInputs :
              AcceptedAsClaimed([invalidSim(a, 0, w) EXCEPT !.currentStates = states])

\* a simulation that has made a step is in an accept state with input left,
\* and is not accepted
C17_Witness ==
    /\ sim # Nothing
    /\ Len(sim.steps) = 2
    /\ ~isFinished(sim)
    /\ sim.currentStates # {}
    /\ sim.currentStates \subseteq sim.automaton.acceptStates
    /\ ~isAccepted(sim)

\* the automaton is of type DFA, none of its transitions carries the epsilon
\* marker, each has exactly one destination, and no two of them have the
\* same from and the same symbol
Deterministic(automaton) ==
    /\ automaton.type = "DFA"
    /\ \A t \in Range(automaton.transitions) :
         t.symbol # null /\ Cardinality(t.to) = 1
    /\ \A i, j \in 1 .. Len(automaton.transitions) :
         (/\ automaton.transitions[i].from = automaton.transitions[j].from
          /\ automaton.transitions[i].symbol = automaton.transitions[j].symbol)
           => i = j

\* every state has exactly one transition on every symbol of the alphabet
Total(automaton) ==
    \A state \in automaton.states, symbol \in automaton.alphabet :
      Cardinality(matching(automaton, state, symbol)) = 1

\* C18: for every automaton value, also one with fields written by hand,
\* isRunnable is true iff the type is DFA and hasStartState, isDFA and
\* isComplete hold, and hasStartState is true iff startState is a member of
\* states.
C18_RunnableIffAllChecks ==
    /\ isRunnable(a) <=>
         (a.type = "DFA" /\ hasStartState(a) /\ isDFA(a) /\ isComplete(a))
    /\ hasStartState(a) <=> (a.startState \in a.states)
    /\ isRunnable(a) <=>
         (a.startState \in a.states /\ Deterministic(a) /\ Total(a))

\* createSimulation has refused a hand-made DFA that is complete and whose
\* start state is not one of its states
C18_Witness ==
    /\ argsIntact.threw
    /\ a.type = "DFA"
    /\ a.states # {}
    /\ a.startState \notin a.states
    /\ isDFA(a)
    /\ isComplete(a)
    /\ ~isRunnable(a)

C20_CompleteIffTotalDFA ==
    /\ isComplete(a) <=> (isDFA(a) /\ Total(a))
    /\ \A state \in a.states, symbol \in a.alphabet :
         Cardinality(matching(a, state, symbol)) # 1 => ~isComplete(a)

\* a hand-made DFA of two states over two characters passes isDFA and lacks
\* a transition for some pair: isComplete is false, and createSimulation has
\* refused
C20_Witness ==
    /\ argsIntact.threw
    /\ a.states = {0, 1}
    /\ a.alphabet = {"0", "1"}
    /\ Len(a.transitions) = 2
    /\ isDFA(a)
    /\ \E state \in a.states, symbol \in a.alphabet :
         matching(a, state, symbol) = {}
    /\ ~isComplete(a)

\* the ids reachable from the ids of S along the edges from -> d, for every
\* transition and every d of its to set
RECURSIVE Closure(_, _)
Closure(automaton, S) ==
    LET next == S \cup UNION {t.to : t \in {u \in Range(automaton.transitions) :
                                               u.from \in S}}
    IN  IF next = S THEN S ELSE Closure(automaton, next)

\* C21: getOrphanedStates returns all of states when startState is not a
\* member of states; otherwise exactly the members of states that are not
\* reachable from startState along the transitions, startState counting as
\* reachable.  The result is a subset of states and, when hasStartState
\* holds, does not contain startState.
C21_OrphansAreUnreachable ==
    /\ a.startState \notin a.states => getOrphanedStates(a) = a.states
    /\ a.startState \in a.states =>
         getOrphanedStates(a) = a.states \ Closure(a, {a.startState})
    /\ getOrphanedStates(a) \subseteq a.states
    /\ hasStartState(a) => a.startState \notin getOrphanedStates(a)

\* the Validator was called on an automaton whose start state is a state,
\* with an orphaned state that has a transition of its own
C21_Witness ==
    /\ argsIntact.validated
    /\ hasStartState(a)
    /\ getOrphanedStates(a) # {}
    /\ \E t \in Range(a.transitions) :
         t.from \in getOrphanedStates(a) /\ t.to # {}

\* C22: the traversal of getOrphanedStates ends for every automaton, with
\* self-loops, cycles and parallel transitions: no id enters the worklist
\* twice, every id that entered is dequeued once, and the dequeues number
\* the distinct ids reachable from startState.
C22_TraversalVisitsOnce ==
    hasStartState(a) =>
      LET done == traversal(a)
      IN  /\ done.queue = <<>>
          /\ \A i, j \in 1 .. Len(done.pushed) :
               done.pushed[i] = done.pushed[j] => i = j
          /\ done.dequeues = Len(done.pushed)
          /\ Range(done.pushed) = done.reachable
          /\ done.dequeues = Cardinality(Closure(a, {a.startState}))
          /\ done.dequeues <= Cardinality(a.states \cup
                                 UNION {t.to : t \in Range(a.transitions)})

\* the Validator was called on an automaton in which a transition leads back
\* to the start state from another id, reached by two dequeues
C22_Witness ==
    /\ argsIntact.validated
    /\ hasStartState(a)
    /\ \E t \in Range(a.transitions) :
         /\ t.from # a.startState
         /\ t.from \in traversal(a).reachable
         /\ a.startState \in t.to
    /\ traversal(a).dequeues = 2

\* the texts of the warnings of a report
WarningTexts(report) == {report.warnings[i].text : i \in 1 .. Len(report.warnings)}

\* C23: the errors of getValidationReport hold the no-start-state error iff
\* hasStartState is false, the not-a-valid-DFA error iff isDFA is false, and
\* the incomplete error iff isDFA is true and isComplete false, so never the
\* last two together; the warnings hold the no-accept-states warning iff
\* acceptStates is empty and one unreachable-states warning, listing exactly
\* the ids of getOrphanedStates, iff that set is non-empty; valid is true
\* iff errors is empty, whatever the warnings.
C23_ReportMatchesChecks ==
    LET report == getValidationReport(a)
        errors == Range(report.errors)
        unreachable == {i \in 1 .. Len(report.warnings) :
                          report.warnings[i].text = "Unreachable states"}
    IN  /\ ("No start state defined" \in errors) <=> ~hasStartState(a)
        /\ ("Not a valid DFA" \in errors) <=> ~isDFA(a)
        /\ ("DFA is incomplete" \in errors) <=> (isDFA(a) /\ ~isComplete(a))
        /\ ~({"Not a valid DFA", "DFA is incomplete"} \subseteq errors)
        /\ errors \subseteq
             {"No start state defined", "Not a valid DFA", "DFA is incomplete"}
        /\ ("No accept states defined" \in WarningTexts(report))
             <=> (a.acceptStates = {})
        /\ (unreachable # {}) <=> (getOrphanedStates(a) # {})
        /\ Cardinality(unreachable) <= 1
        /\ \A i \in unreachable :
             /\ Range(report.warnings[i].ids) = getOrphanedStates(a)
             /\ Len(report.warnings[i].ids) = Cardinality(getOrphanedStates(a))
        /\ report.valid <=> (report.errors = <<>>)
        /\ (isRunnable(a) /\ getOrphanedStates(a) # {}) =>
             (report.valid /\ report.errors = <<>> /\ report.warnings # <<>>)

\* the Validator was called on a runnable DFA with accept states and an
\* unreachable state: the report is valid and its one warning lists the state
C23_Witness ==
    /\ argsIntact.validated
    /\ isRunnable(a)
    /\ a.acceptStates # {}
    /\ getOrphanedStates(a) # {}
    /\ getValidationReport(a).valid
    /\ Len(getValidationReport(a).warnings) = 1
    /\ Range(getValidationReport(a).warnings[1].ids) = getOrphanedStates(a)

\* C24: every function of the Validator returns a result, and leaves its
\* argument as it was, for every automaton value, malformed ones included:
\* the predicates return a boolean, getOrphanedStates a subset of states,
\* getValidationReport a report.
C24_ValidatorTotalAndPure ==
    /\ argsIntact.returned
    /\ LET r == validate(a)
       IN  /\ r.ok
           /\ r.inp = a
           /\ {r.out.isDFA, r.out.isComplete, r.out.hasStartState,
                r.out.hasAcceptStates, r.out.isRunnable, r.out.report.valid}
                \subseteq BOOLEAN
           /\ r.out.orphaned \subseteq a.states
           /\ Len(r.out.report.errors) <= 2
           /\ Len(r.out.report.warnings) <= 2

\* the Validator was called on a DFA whose start state is not a state and
\* which has an epsilon transition, a transition without destination and a
\* transition from an id that is not a state
C24_Witness ==
    /\ argsIntact.validated
    /\ argsIntact.returned
    /\ a.type = "DFA"
    /\ a.states # {}
    /\ a.startState \notin a.states
    /\ \E t \in Range(a.transitions) : t.symbol = null /\ t.from \notin a.states
    /\ \E t \in Range(a.transitions) : t.to = {}

\* C25: removeState of the start state of an automaton with at least two
\* states succeeds and returns an automaton whose startState is the smallest
\* member of states without the removed id; removeState of another state
\* leaves startState unchanged.
C25_StartReassignedToSmallest ==
    \A id \in a.states :
      Cardinality(a.states) >= 2 =>
        LET r == removeState(a, id)
        IN  /\ r.ok
            /\ id = a.startState =>
                 /\ r.out.startState \in a.states \ {id}
                 /\ \A other \in a.states \ {id} : r.out.startState <= other
            /\ id # a.startState => r.out.startState = a.startState

\* state 0 was removed and the start state went to state 1; of the three
\* states left, removing the start state makes state 2 the start state
C25_Witness ==
    /\ 0 \notin a.states
    /\ a.states = {1, 2, 3}
    /\ a.startState = 1
    /\ removeState(a, 1).ok
    /\ removeState(a, 1).out.startState = 2

\* C26: on an automaton of type DFA addTransition fails when to has not
\* exactly one member, when symbol is the epsilon marker, and when a
\* transition for (from, symbol) exists; otherwise, with from and the member
\* of to in states and symbol in the alphabet, it succeeds, the transition is
\* the last element of transitions after the earlier ones in their order,
\* nothing else changes, and getTransition for (from, symbol) returns
\* exactly that transition.
C26_DfaAddTransition ==
    a.type = "DFA" =>
      \A from \in IdInputs, to \in ToInputs, symbol \in SymbolInputs :
        LET r == addTransition(a, from, to, symbol)
            taken == \E t \in Range(a.transitions) :
                       t.from = from /\ t.symbol = symbol
            refused == Cardinality(to) # 1 \/ symbol = null \/ taken
            valid == from \in a.states /\ to \subseteq a.states
                       /\ symbol \in a.alphabet
        IN  /\ refused => ~r.ok
            /\ (~refused /\ valid) =>
                 /\ r.ok
                 /\ r.out = [a EXCEPT !.transitions =
                               a.transitions \o
                                 <<[from |-> from, to |-> to, symbol |-> symbol]>>]
                 /\ getTransition(r.out, from, symbol) =
                      <<[from |-> from, to |-> to, symbol |-> symbol]>>
            /\ r.ok => (~refused /\ valid)

\* a DFA holds two transitions added one after the other; getTransition
\* returns the second for its pair, and adding another one for that pair is
\* refused
C26_Witness ==
    /\ a.type = "DFA"
    /\ Len(a.transitions) = 2
    /\ getTransition(a, a.transitions[2].from, a.transitions[2].symbol)
         = <<a.transitions[2]>>
    /\ a.transitions[1] # a.transitions[2]
    /\ \E to \in ToInputs :
         /\ to # a.transitions[2].to
         /\ to \subseteq a.states
         /\ Cardinality(to) = 1
         /\ addTransition(a, a.transitions[2].from, to, a.transitions[2].symbol).err
              = "Transition already exists"

\* the transitions of the sequence that differ from (from, to, symbol) in
\* from, in symbol or in the destination set, in their order
RECURSIVE Without(_, _, _, _)
Without(transitions, from, to, symbol) ==
    IF transitions = <<>> THEN <<>>
    ELSE LET t == Head(transitions)
             rest == Without(Tail(transitions), from, to, symbol)
         IN  IF t.from = from /\ t.symbol = symbol /\ t.to = to
             THEN rest ELSE <<t>> \o rest

\* C27: removeTransition never fails; it returns the automaton with the
\* transitions of the argument, in their order, without those whose from and
\* symbol are the arguments and whose destination set equals to, and with
\* every other field unchanged; when none matches nothing changes; applying
\* it twice gives what applying it once gives; applied after a successful
\* addTransition with the same arguments it gives back the automaton before.
C27_RemoveTransitionExact ==
    \A from \in IdInputs, to \in ToInputs, symbol \in SymbolInputs :
      LET r == removeTransition(a, from, to, symbol)
          added == addTransition(a, from, to, symbol)
      IN  /\ r.ok
          /\ r.out = [a EXCEPT !.transitions =
                        Without(a.transitions, from, to, symbol)]
          /\ (\A t \in Range(a.transitions) :
                 ~(t.from = from /\ t.symbol = symbol /\ t.to = to))
               => r.out = a
          /\ removeTransition(r.out, from, to, symbol).out = r.out
          /\ added.ok =>
               /\ removeTransition(added.out, from, to, symbol).ok
               /\ removeTransition(added.out, from, to, symbol).out = a

\* of the two transitions held, removeTransition with the arguments of the
\* first drops it and keeps the second, and with another destination set of
\* the same size it drops nothing
C27_Witness ==
    /\ Len(a.transitions) = 2
    /\ LET t == a.transitions[1]
       IN  /\ removeTransition(a, t.from, t.to, t.symbol).out.transitions
                = <<a.transitions[2]>>
           /\ \E to \in ToInputs :
                /\ to # t.to
                /\ Cardinality(to) = Cardinality(t.to)
                /\ removeTransition(a, t.from, to, t.symbol).out = a

\* C28: addAcceptState fails iff the id is not in states or is in
\* acceptStates, and otherwise returns the automaton with the id added to
\* acceptStates; removeAcceptState fails iff the id is not in states or not
\* in acceptStates, and otherwise returns it with the id removed;
\* setStartState fails iff the id is not in states, and otherwise returns it
\* with startState the id.  No other field changes, and removeAcceptState
\* after a successful addAcceptState of the same id gives back the automaton.
C28_AcceptAndStartSetters ==
    \A id \in IdInputs :
      LET added == addAcceptState(a, id)
          removed == removeAcceptState(a, id)
          started == setStartState(a, id)
      IN  /\ ~added.ok <=> (id \notin a.states \/ id \in a.acceptStates)
          /\ added.ok =>
               /\ added.out = [a EXCEPT !.acceptStates = a.acceptStates \cup {id}]
               /\ removeAcceptState(added.out, id).ok
               /\ removeAcceptState(added.out, id).out = a
          /\ ~removed.ok <=> (id \notin a.states \/ id \notin a.acceptStates)
          /\ removed.ok =>
               removed.out = [a EXCEPT !.acceptStates = a.acceptStates \ {id}]
          /\ ~started.ok <=> id \notin a.states
          /\ started.ok => started.out = [a EXCEPT !.startState = id]

\* the start state was set to a state other than 0 while 0 is a state, two
\* states are accept states, and adding one of them again is refused
C28_Witness ==
    /\ 0 \in a.states
    /\ a.startState # 0
    /\ Cardinality(a.acceptStates) = 2
    /\ addAcceptState(a, a.startState).err = "State is already an accept state"
    /\ removeAcceptState(a, a.startState).ok

\* C29: createAutomaton fails, with 'Alphabet cannot be empty', iff the
\* alphabet is empty; otherwise it returns an automaton of the given type
\* and alphabet with states = {0}, startState = 0, nextStateId = 1, no
\* transitions and no accept states.  An automaton to which no state was
\* added still has state 0 alone, as its start state, and a non-empty
\* alphabet.
C29_CreateAutomaton ==
    /\ \A in \in CreateInputs :
         LET r == createAutomaton(in[1], in[2])
         IN  /\ ~r.ok <=> in[2] = {}
             /\ ~r.ok => r.err = "Alphabet cannot be empty"
             /\ r.ok => r.out = [type |-> in[1],
                                 alphabet |-> in[2],
                                 states |-> {0},
                                 startState |-> 0,
                                 nextStateId |-> 1,
                                 transitions |-> <<>>,
                                 acceptStates |-> {}]
    /\ a.alphabet # {}
    /\ a.nextStateId = 1 => (a.states = {0} /\ a.startState = 0)

\* a call has thrown and the automaton held is the one createAutomaton
\* returns for an alphabet of two characters
C29_Witness ==
    /\ argsIntact.threw
    /\ a.alphabet = {"0", "1"}
    /\ a = createAutomaton(a.type, a.alphabet).out
    /\ createAutomaton(a.type, {}).err = "Alphabet cannot be empty"

\* C30: two contexts that hold handles derived from one automaton snapshot and
\* call the Builder and the Simulator on their own handles, in any
\* interleaving, never disturb each other: no call of one context changes the
\* value the other holds, the snapshot object is as it was while a context
\* holds it, and every Set and array a context still shares with the snapshot
\* has the contents it had in the snapshot, so each context computes from
\* the values it would have alone.
C30_ContextsIsolated ==
    ctx # Nothing =>
      /\ ctx.undisturbed
      /\ \A c \in Contexts :
           /\ \A f \in ctx.kept[c] \cap ObjectFields : ctx.value[c][f] = a[f]
           /\ Self \in ctx.kept[c] => ctx.value[c] = a

\* both contexts have moved on from the snapshot to different values, one of
\* them with a state the other does not have, and still share a Set or the
\* array of the snapshot besides the alphabet
C30_Witness ==
    /\ ctx # Nothing
    /\ Self \notin ctx.kept[1] \cup ctx.kept[2]
    /\ ctx.value[1].states # ctx.value[2].states
    /\ (ctx.kept[1] \cap ctx.kept[2]) \ {"alphabet"} # {}
    /\ ctx.value[2].acceptStates # {}

\* C31: the trace of the simulation held has one line per step record, in
\* order: a Start line with the state and the remaining input of a record
\* whose symbolProcessed is null, a Read line with the symbol, the state of
\* the record before, the state and the remaining input of every other
\* record; after them comes exactly one Result line iff the simulation is
\* finished, which reads ACCEPTED iff isAccepted and REJECTED otherwise; a
\* simulation that is not finished has no Result line.
C31_ExecutionTrace ==
    sim # Nothing =>
      LET r == getExecutionTrace(sim)
          trace == r.out
          n == Len(sim.steps)
          results == {i \in 1 .. Len(trace) : trace[i].text = "Result"}
      IN  /\ r.ok
          /\ Len(trace) = n + (IF Len(sim.remainingInput) = 0 THEN 1 ELSE 0)
          /\ \A i \in 1 .. n :
               IF sim.steps[i].symbolProcessed = null
               THEN /\ trace[i].text = "Start"
                    /\ trace[i].state = sim.steps[i].currentState
                    /\ trace[i].remaining = sim.steps[i].remainingInput
               ELSE /\ trace[i].text = "Read"
                    /\ trace[i].symbol = sim.steps[i].symbolProcessed
                    /\ trace[i].prev = sim.steps[i - 1].currentState
                    /\ trace[i].state = sim.steps[i].currentState
                    /\ trace[i].remaining = sim.steps[i].remainingInput
          /\ results = IF Len(sim.remainingInput) = 0 THEN {n + 1} ELSE {}
          /\ \A i \in results :
               trace[i].verdict =
                 IF /\ Len(sim.remainingInput) = 0
                    /\ sim.currentStates \cap sim.automaton.acceptStates # {}
                 THEN "ACCEPTED" ELSE "REJECTED"

\* a finished, accepted simulation whose trace has a Start line, two Read
\* lines and a Result line
C31_Witness ==
    /\ sim # Nothing
    /\ Len(sim.steps) = 3
    /\ isAccepted(sim)
    /\ getExecutionTrace(sim).ok
    /\ Len(getExecutionTrace(sim).out) = 4

\* whether the string w ends in "01"
EndsWith01(w) ==
    Len(w) >= 2 /\ w[Len(w) - 1] = "0" /\ w[Len(w)] = "1"

\* C32: the DFA over {0, 1} that the Builder calls of createEndsWith01DFA
\* build has the states 0 (start), 1 and 2 (accepting) and the transitions
\* 0-0->1, 0-1->0, 1-0->1, 1-1->2, 2-0->1, 2-1->0; it is runnable, and
\* accepts(dfa, w) is true exactly for the binary strings w ending in "01":
\* true for "01" and "111101", false for "0" and "" (every run the caller
\* makes on it ends accepted iff its input ends in "01").
C32_EndsWith01 ==
    LET dfa == createEndsWith01DFA
    IN  /\ dfa.type = "DFA" /\ dfa.alphabet = {"0", "1"}
        /\ dfa.states = {0, 1, 2} /\ dfa.startState = 0 /\ dfa.acceptStates = {2}
        /\ Range(dfa.transitions) =
             {[from |-> 0, to |-> {1}, symbol |-> "0"],
              [from |-> 0, to |-> {0}, symbol |-> "1"],
              [from |-> 1, to |-> {1}, symbol |-> "0"],
              [from |-> 1, to |-> {2}, symbol |-> "1"],
              [from |-> 2, to |-> {1}, symbol |-> "0"],
              [from |-> 2, to |-> {0}, symbol |-> "1"]}
        /\ Len(dfa.transitions) = 6
        /\ isRunnable(dfa)
        /\ accepts(dfa, <<"0", "1">>) = Returned(TRUE, dfa)
        /\ accepts(dfa, <<"1", "1", "1", "1", "0", "1">>) = Returned(TRUE, dfa)
        /\ accepts(dfa, <<"0">>) = Returned(FALSE, dfa)
        /\ accepts(dfa, <<>>) = Returned(FALSE, dfa)
        /\ (a = dfa /\ sim # Nothing) =>
             /\ accepts(dfa, sim.input) = Returned(EndsWith01(sim.input), dfa)
             /\ isFinished(sim) => (isAccepted(sim) <=> EndsWith01(sim.input))

\* the caller has run the DFA on "111101" and the run is accepted
C32_Witness ==
    /\ a = createEndsWith01DFA
    /\ sim # Nothing
    /\ sim.input = <<"1", "1", "1", "1", "0", "1">>
    /\ isFinished(sim)
    /\ isAccepted(sim)

\* the number the binary string w denotes (0 for the empty string)
RECURSIVE Denoted(_)
Denoted(w) ==
    IF Len(w) = 0 THEN 0
    ELSE 2 * Denoted(SubSeq(w, 1, Len(w) - 1)) + (IF w[Len(w)] = "1" THEN 1 ELSE 0)

\* the characters of its input a simulation has consumed
Consumed(simulation) ==
    SubSeq(simulation.input, 1, Len(simulation.input) - Len(simulation.remainingInput))

\* C33: the DFA over {0, 1} that the Builder calls of createDivisibleBy3DFA
\* build has the states 0 (start, accepting), 1 and 2 and, from every state
\* old on every bit, the one transition to (old * 2 + bit) mod 3; it accepts
\* a non-empty binary string iff the number it denotes is divisible by 3
\* (true for "0", "11" and "110", false for "101"), and after every prefix
\* of the input the current state is the value of that prefix mod 3.
C33_DivisibleBy3 ==
    LET dfa == createDivisibleBy3DFA
    IN  /\ dfa.type = "DFA" /\ dfa.alphabet = {"0", "1"}
        /\ dfa.states = {0, 1, 2} /\ dfa.startState = 0 /\ dfa.acceptStates = {0}
        /\ Range(dfa.transitions) =
             {[from |-> old, to |-> {(old * 2 + bit) % 3},
               symbol |-> IF bit = 1 THEN "1" ELSE "0"] : old \in 0 .. 2, bit \in 0 .. 1}
        /\ Len(dfa.transitions) = 6
        /\ accepts(dfa, <<"0">>) = Returned(TRUE, dfa)
        /\ accepts(dfa, <<"1", "1">>) = Returned(TRUE, dfa)
        /\ accepts(dfa, <<"1", "1", "0">>) = Returned(TRUE, dfa)
        /\ accepts(dfa, <<"1", "0", "1">>) = Returned(FALSE, dfa)
        /\ (a = dfa /\ sim # Nothing) =>
             /\ Len(sim.input) > 0 =>
                  accepts(dfa, sim.input) = Returned(Denoted(sim.input) % 3 = 0, dfa)
             /\ sim.currentStates = {Denoted(Consumed(sim)) % 3}
             /\ \A i \in 1 .. Len(sim.steps) :
                  sim.steps[i].currentState =
                    Denoted(SubSeq(sim.input, 1, i - 1)) % 3
             /\ (isFinished(sim) /\ Len(sim.input) > 0) =>
                  (isAccepted(sim) <=> Denoted(sim.input) % 3 = 0)

\* the caller has run the DFA on "110" (six) and the run is accepted after
\* passing through the states 1, 0 and 0
C33_Witness ==
    /\ a = createDivisibleBy3DFA
    /\ sim # Nothing
    /\ sim.input = <<"1", "1", "0">>
    /\ isFinished(sim)
    /\ isAccepted(sim)
    /\ Len(sim.steps) = 4
    /\ sim.steps[2].currentState = 1

\* the sequences with the elements of seq in every order
Reorderings(seq) ==
    LET n == Len(seq)
        orders == {f \in [1 .. n -> 1 .. n] : \A i, j \in 1 .. n : f[i] = f[j] => i = j}
    IN  {[i \in 1 .. n |-> seq[f[i]]] : f \in orders}

\* C34: isDFA does not depend on the order of the transitions: for the
\* automaton held, hand-made ones included, isDFA returns the same boolean on
\* every automaton that differs from it only by a permutation of the
\* transitions array (leaving the loop at the first repeated (from, symbol)
\* pair never changes the answer).
C34_IsDFAOrderIndependent ==
    \A transitions \in Reorderings(a.transitions) :
      isDFA([a EXCEPT !.transitions = transitions]) = isDFA(a)

\* a DFA-typed value with two different transitions for one (from, symbol)
\* pair, each with one destination and a symbol: the counting loop is left
\* at the second, in either order
C34_Witness ==
    /\ a.type = "DFA"
    /\ Len(a.transitions) = 2
    /\ a.transitions[1] # a.transitions[2]
    /\ transitionKey(a.transitions[1]) = transitionKey(a.transitions[2])
    /\ \A i \in 1 .. 2 : a.transitions[i].symbol # null
                          /\ Cardinality(a.transitions[i].to) = 1
    /\ ~isDFA(a)
    /\ argsIntact.validated

\* C35: for the automaton value held, hand-made ones included, the valid
\* field of getValidationReport is true iff isRunnable is true, and
\* createSimulation on it with any input returns iff the report is valid.
C35_ValidIffRunnable ==
    /\ getValidationReport(a).valid <=> isRunnable(a)
    /\ \A input \in Inputs :
         createSimulation(a, input).ok <=> getValidationReport(a).valid
    /\ (sim # Nothing /\ sim.steps[1].symbolProcessed = null)
         => getValidationReport(sim.automaton).valid

\* the caller holds a simulation that createSimulation returned for the
\* hand-made automaton it holds, whose report is valid
C35_Witness ==
    /\ sim # Nothing
    /\ sim.automaton = a
    /\ Len(sim.steps) = 1
    /\ Len(a.transitions) > 0
    /\ getValidationReport(a).valid
    /\ getValidationReport(a).warnings # <<>>

\* whether s is what is left of w after some of its first characters
IsSuffix(s, w) ==
    Len(s) <= Len(w) /\ s = SubSeq(w, Len(w) - Len(s) + 1, Len(w))

\* C36: createSimulation returns a simulation with the automaton and the
\* input it was given, and a step that returns keeps both; in every
\* simulation the caller reaches from createSimulation by steps that
\* return, remainingInput is a suffix of input, steps has
\* |input| - |remainingInput| + 1 records, currentStates has exactly one
\* member, and that member is the currentState of the last step record.
C36_SimulationShape ==
    /\ \A input \in Inputs :
         LET r == createSimulation(a, input)
         IN  r.ok => r.out.automaton = a /\ r.out.input = input
    /\ sim # Nothing =>
         /\ sim.automaton = a
         /\ LET r == step(sim)
            IN  r.ok => /\ r.out.automaton = sim.automaton
                        /\ r.out.input = sim.input
         /\ IsSuffix(sim.remainingInput, sim.input)
         /\ Len(sim.steps) = Len(sim.input) - Len(sim.remainingInput) + 1
         /\ Cardinality(sim.currentStates) = 1
         /\ sim.currentStates = {sim.steps[Len(sim.steps)].currentState}

\* a simulation one step after its creation, with input left, in a state
\* other than the start state
C36_Witness ==
    /\ sim # Nothing
    /\ Len(sim.input) = 2
    /\ Len(sim.remainingInput) = 1
    /\ Len(sim.steps) = 2
    /\ sim.currentStates # {sim.automaton.startState}

\* the destinations d of the transitions of the automaton from q on c that
\* lead to d alone
Destinations(automaton, q, c) ==
    {d \in automaton.states :
       \E i \in 1 .. Len(automaton.transitions) :
         LET t == automaton.transitions[i]
         IN  t.from = q /\ t.symbol = c /\ t.to = {d}}

\* C37: in every simulation the caller reaches from createSimulation on a
\* Builder-built runnable automaton, the first step record is the start
\* state with symbolProcessed null and the whole input, and for every later
\* record i, symbolProcessed is the i-th character of the input,
\* remainingInput is the input without its first i characters, and
\* currentState is the sole destination of the automaton's transition from
\* the currentState of the record before on that character.
C37_TraceFollowsTransitions ==
    sim # Nothing =>
      /\ sim.steps[1] = [currentState |-> sim.automaton.startState,
                         symbolProcessed |-> null,
                         remainingInput |-> sim.input]
      /\ \A i \in 1 .. Len(sim.steps) - 1 :
           /\ sim.steps[i + 1].symbolProcessed = sim.input[i]
           /\ sim.steps[i + 1].remainingInput = SubSeq(sim.input, i + 1, Len(sim.input))
           /\ Destinations(sim.automaton, sim.steps[i].currentState, sim.input[i])
                = {sim.steps[i + 1].currentState}

\* a simulation three steps after its creation that has been in three
\* different states
C37_Witness ==
    /\ sim # Nothing
    /\ Len(sim.steps) = 4
    /\ Cardinality({sim.steps[i].currentState : i \in 1 .. 4}) = 3
    /\ Len(sim.remainingInput) > 0

\* the states that appear in a simulation
Visited(simulation) ==
    simulation.currentStates
      \cup {simulation.steps[i].currentState : i \in 1 .. Len(simulation.steps)}

\* C38: for every Builder-built runnable automaton and every input, every
\* state that appears in the simulation, in currentStates or in a step
\* record, is a member of states and is not among getOrphanedStates of the
\* automaton: the simulator only visits states the Validator finds
\* reachable.
C38_VisitsReachableOnly ==
    sim # Nothing =>
      /\ sim.automaton = a
      /\ Visited(sim) \subseteq a.states
      /\ Visited(sim) \cap getOrphanedStates(a) = {}

\* a simulation that has taken a step on an automaton with an orphaned
\* state
C38_Witness ==
    /\ sim # Nothing
    /\ Len(sim.steps) >= 2
    /\ getOrphanedStates(a) # {}
    /\ Visited(sim) # {}

\* C39: for the Builder-built automaton held, what addState returns is never
\* complete and never runnable (the new state has no outgoing transition and
\* the alphabet is not empty), the new id is among getOrphanedStates of the
\* result, and createSimulation on the result throws for every input; what
\* createAutomaton returns is not runnable either.
C39_AddStateNeverRunnable ==
    /\ LET r == addState(a)
       IN  /\ r.ok
           /\ ~isComplete(r.out)
           /\ ~isRunnable(r.out)
           /\ r.stateId \in getOrphanedStates(r.out)
           /\ \A input \in Inputs : ~createSimulation(r.out, input).ok
    /\ \A in \in CreateInputs :
         LET r == createAutomaton(in[1], in[2])
         IN  r.ok => ~isRunnable(r.out) /\ ~isComplete(r.out)
    /\ (Len(issued) > 0 /\ a.nextStateId = issued[Len(issued)] + 1
          /\ issued[Len(issued)] \in a.states
          /\ (\A i \in 1 .. Len(a.transitions) :
                a.transitions[i].from # issued[Len(issued)]))
         => ~isRunnable(a) /\ ~isComplete(a)

\* addState has just returned the DFA held, and every state but the new one
\* has a transition on every symbol: the automaton it was called on was
\* runnable
C39_Witness ==
    /\ Len(issued) > 0
    /\ a.nextStateId = issued[Len(issued)] + 1
    /\ issued[Len(issued)] \in a.states
    /\ getTransitionsFrom(a, issued[Len(issued)]) = <<>>
    /\ isRunnable([a EXCEPT !.states = a.states \ {issued[Len(issued)]}])
    /\ ~isRunnable(a)

====
